---- MODULE Spec2Model ----
(***************************************************************************)
(* State-machine model of the Service-Controlled-Operations engine of      *)
(* sdc11073 (sdcdevice/sco.py) and of the request handlers that feed it    *)
(* (sdcdevice/sdcservicesimpl.py, sdcdevice/sdcdeviceimpl.py).             *)
(*                                                                         *)
(* Operation objects are identified by their handle.  A queued item keeps  *)
(* the transaction id and the operation; the request envelope and the      *)
(* operation_request object (which run() and execute_operation() only read *)
(* through .argument) carry no control flow and are left out.              *)
(* A notification is recorded when notify_operation returns; a            *)
(* notify_operation call that raises delivers nothing.                     *)
(***************************************************************************)
EXTENDS Integers, Sequences, FiniteSets, Bags, TLC

\* ---------------------------------------------------------------- bounds
MaxCalls == 2
MaxCallsQ == 3
QueueFill == 8
MaxCallsSvc == 2
MaxWorkers == 2
MaxFaults == 2

\* ------------------------------------------------------ program constants
QueueSize == 10
FirstTransactionId == 1

Threads == {"t1", "t2"}
Handles == {"op_val", "op_ctx"}
Workers == 1..MaxWorkers
NoWorker == 0

\* wire tags of the seven request kinds (msg_qnames.py)
RequestTags == {"SetValue", "SetString", "Activate", "SetMetricState",
                "SetAlertState", "SetComponentState", "SetContextState"}

\* OP_QNAME of the operation class registered under each handle
OP_QNAME(h) == IF h = "op_val" THEN "SetValue" ELSE "SetContextState"

\* OperationTarget of each operation descriptor
OperationTarget(h) == IF h = "op_val" THEN "metric_1" ELSE "patient_ctx"

\* pmtypes.InvocationState / InvocationError
WAIT == "Wait"
START == "Start"
FINISHED == "Fin"
FAILED == "Fail"
INVALID_VALUE == "Inv"
ERROR_OTHER == "Oth"
TerminalStates == {FINISHED, FAILED}

NoError == "none"
EffectError == "ValueError"
SinkError == "SinkError"

\* repr(ex): the text the FAILED notification carries
Repr(ex) == <<"repr", ex>>

StopItem == [kind |-> "stop_sco", tid |-> 0, op |-> "none"]
NoItem == [kind |-> "none", tid |-> 0, op |-> "none"]
OpItem(tid, op) == [kind |-> "op", tid |-> tid, op |-> op]

VARIABLES
    registered_operations,  \* ScoOperationsRegistry._registered_operations (handles)
    descriptions,           \* mdib.descriptions (handles)
    states,                 \* mdib.states (descriptor handles)
    registry_calls,         \* per handle, the last registry call that named it
    worker,                 \* ScoOperationsRegistry._worker (NoWorker = None)
    created,                \* number of _OperationsWorker instances constructed
    operations_queue,       \* _OperationsWorker._operations_queue, per instance
    transaction_id,         \* _OperationsWorker._transaction_id, per instance
    wpc,                    \* position of each worker thread in run()
    from_queue,             \* the item run() is handling
    wex,                    \* the exception caught by the inner except
    notifications,          \* what the report sink received from each worker, in order
    cpc,                    \* position of each calling thread
    cref,                   \* worker instance the calling thread holds
    citem,                  \* item the calling thread is about to put
    cclass,                 \* how the thread's request relates to the registry
    reply,                  \* last response returned to a caller
    accepted,               \* invocations whose item was placed in the queue
    returned,               \* invocations whose id the caller of enqueue_operation holds
    full_rejected,          \* invocations whose put timed out
    executing,              \* invocations whose effect is in progress
    effect_raised,          \* invocations whose effect raised
    sink_raised,            \* invocations during which a sink call raised
    handled,                \* invocations run() has finished with
    stop_requested,         \* workers for which stop() was called
    before_stop,            \* invocations queued when the first sentinel of their worker was put
    calls_left,             \* remaining enqueue_operation calls
    faults_left,            \* remaining raising effect / sink calls
    context_states,         \* mdib.context_states: the context state containers
    mdib_version,           \* mdib.mdib_version
    clock,                  \* what time.time() returns
    request,                \* proposed_context_states of the last SetContextState effect
    prev_states,            \* context_states when that effect began
    outcome,                \* terminal invocation state of that effect
    metric_category,        \* MetricCategory of the operation target's descriptor
    metric_state,           \* the metric state of the operation target
    prev_metric,            \* metric_state when the last setter began
    current_value,          \* operation_instance.current_value
    descriptor_class,       \* class of the descriptor container under study
    property_nodes,         \* tags of the sub elements _updateNode makes for it
    child_containers_by_type, \* its _child_containers_by_type, keys in insertion order
    before_call,            \* _child_containers_by_type when the last addChild / rmChild began
    last_call,              \* the last addChild / rmChild call and how it ended
    next_handle,            \* handle of the next child container
    node,                   \* outcome of the last mk_descriptor_node since the children changed
    child_ops_left,         \* remaining addChild / rmChild calls
    effects_left            \* remaining effect executions

engine_vars == <<worker, created, operations_queue, transaction_id, wpc, from_queue, wex>>
context_vars == <<context_states, mdib_version, clock, request, prev_states, outcome>>
metric_vars == <<metric_category, metric_state, prev_metric, current_value>>
descriptor_vars == <<descriptor_class, property_nodes, child_containers_by_type, before_call,
                     last_call, next_handle, node, child_ops_left>>
store_vars == <<context_vars, metric_vars, descriptor_vars, effects_left>>
registry_vars == <<registered_operations, descriptions, states, registry_calls, store_vars>>
caller_vars == <<cpc, cref, citem, cclass, reply>>
history_vars == <<notifications, accepted, returned, full_rejected, executing, effect_raised,
                  sink_raised, handled, stop_requested, before_stop>>
budget_vars == <<calls_left, faults_left>>
vars == <<engine_vars, registry_vars, caller_vars, history_vars, budget_vars>>

Inv(w, item) == [w |-> w, tid |-> item.tid, op |-> item.op]
NoReply == [cls |-> "none", state |-> "none", error |-> "none", tid |-> 0]

EngineInit(calls, faults) ==
    /\ registered_operations = {}
    /\ descriptions = SetToBag({OperationTarget(h) : h \in Handles})
    /\ states = EmptyBag
    /\ registry_calls = [h \in Handles |-> "none"]
    /\ worker = NoWorker
    /\ created = 0
    /\ operations_queue = [w \in Workers |-> <<>>]
    /\ transaction_id = [w \in Workers |-> FirstTransactionId]
    /\ wpc = [w \in Workers |-> "none"]
    /\ from_queue = [w \in Workers |-> NoItem]
    /\ wex = [w \in Workers |-> NoError]
    /\ notifications = [w \in Workers |-> <<>>]
    /\ cpc = [t \in Threads |-> "idle"]
    /\ cref = [t \in Threads |-> NoWorker]
    /\ citem = [t \in Threads |-> NoItem]
    /\ cclass = [t \in Threads |-> "none"]
    /\ reply = NoReply
    /\ accepted = {}
    /\ returned = {}
    /\ full_rejected = {}
    /\ executing = {}
    /\ effect_raised = {}
    /\ sink_raised = {}
    /\ handled = {}
    /\ stop_requested = {}
    /\ before_stop = {}
    /\ calls_left = calls
    /\ faults_left = faults

\* the entity store while no effect has run
\* pmtypes.MetricCategory
UNSPECIFIED == "Unspec"
MEASUREMENT == "Msrmt"
CALCULATION == "Clc"
SETTING == "Set"
PRESETTING == "Preset"
RECOMMENDATION == "Rcmm"
MetricCategory == {UNSPECIFIED, MEASUREMENT, CALCULATION, SETTING, PRESETTING, RECOMMENDATION}

\* pmtypes.MeasurementValidity (three of its nine members)
VALID == "Vld"
QUESTIONABLE == "Qst"
INVALID == "Inv"

\* state.metricValue is None
NoMetricValue == <<>>
\* a Value nothing was assigned to, an instance attribute nothing has set
NoValue == "None"
NoAttribute == "absent"

MetricState(kind, mv) == [kind |-> kind, metricValue |-> mv, StateVersion |-> 0]

\* a metric no setter has run on
IdleMetric ==
    /\ metric_category = UNSPECIFIED
    /\ metric_state = MetricState("numeric", NoMetricValue)
    /\ prev_metric = metric_state
    /\ current_value = NoValue

NoCall == [op |-> "none", handle |-> 0, NODETYPE |-> "none", raised |-> FALSE]
NotBuilt == [built |-> FALSE, connect_child_descriptors |-> FALSE, raised |-> FALSE, children |-> <<>>]

\* a descriptor container nothing was added to
IdleDescriptor ==
    /\ descriptor_class = "MdsDescriptorContainer"
    /\ property_nodes = <<>>
    /\ child_containers_by_type = <<>>
    /\ before_call = <<>>
    /\ last_call = NoCall
    /\ next_handle = 1
    /\ node = NotBuilt
    /\ child_ops_left = 0

\* a context store no effect has run on
IdleContext ==
    /\ context_states = {}
    /\ mdib_version = 0
    /\ clock = 0
    /\ request = <<>>
    /\ prev_states = {}
    /\ outcome = "none"

IdleStore ==
    /\ IdleMetric
    /\ IdleDescriptor
    /\ IdleContext
    /\ effects_left = 0

InitWith(calls, faults) == EngineInit(calls, faults) /\ IdleStore

Init == InitWith(MaxCalls, MaxFaults)

\* ------------------------------------------------------------- registry

\* mutant: a lookup that never answers None
get_operation_by_handle_AlwaysFound(reg, h) == h

\* ScoOperationsRegistry.get_operation_by_handle: dict.get, None when absent
get_operation_by_handle(reg, h) == IF h \in reg THEN h ELSE "None"

\* mdib.descriptions / mdib.states are multi-key lookups that may hold several
\* objects under one key: bags of handles.
\* lookup.get_one(key, allow_none=True): the object, None when there is none
get_one(lookup, key) == IF BagIn(key, lookup) THEN key ELSE "None"
\* lookup.add_object(obj)
add_object(lookup, key) == lookup (+) SetToBag({key})

\* mutant: set_mdib that adds a descriptor without looking for one
set_mdib_descriptions_AlwaysAdds(d, h) == add_object(d, h)
\* mutant: set_mdib that leaves the operation state to somebody else
set_mdib_states_NoOperationState(s, h) == s
\* mutant: a registration that forgets the operation
StoreOperation_Forgets(reg, h) == reg

\* OperationDefinition.set_mdib, descriptor part: the present descriptor is
\* re-used, an absent one is created and added
set_mdib_descriptions(d, h) ==
    IF get_one(d, h) # "None" THEN d ELSE add_object(d, h)

\* OperationDefinition._init_operation_target_container: the target's state is
\* re-used when present, else made from the target descriptor and added;
\* _SetContextStateOperation overrides it with an empty body
_init_operation_target_container(s, h) ==
    IF OP_QNAME(h) = "SetContextState" THEN s
    ELSE IF get_one(s, OperationTarget(h)) # "None" THEN s
    ELSE add_object(s, OperationTarget(h))

\* OperationDefinition.set_mdib, state part: operation state, then the target
set_mdib_states(s, h) ==
    _init_operation_target_container(
        IF get_one(s, h) # "None" THEN s ELSE add_object(s, h), h)

\* self._registered_operations[operation.handle] = operation
StoreOperation(reg, h) == reg \cup {h}

\* ScoOperationsRegistry.register_operation with an operation object of handle
\* h that has no mdib yet (an object that has one makes set_mdib raise
\* RuntimeError before anything is changed)
register_operation(h) ==
    /\ descriptions' = set_mdib_descriptions(descriptions, h)
    /\ states' = set_mdib_states(states, h)
    /\ registered_operations' = StoreOperation(registered_operations, h)
    /\ registry_calls' = [registry_calls EXCEPT ![h] = "register"]
    /\ UNCHANGED <<store_vars, engine_vars, caller_vars, history_vars, budget_vars>>

\* del self._registered_operations[handle]; a missing handle raises KeyError
unregister_operation_by_handle(h) ==
    /\ h \in registered_operations
    /\ registered_operations' = registered_operations \ {h}
    /\ registry_calls' = [registry_calls EXCEPT ![h] = "unregister"]
    /\ UNCHANGED <<descriptions, states, store_vars, engine_vars, caller_vars, history_vars, budget_vars>>

\* SdcDevice.unregister_operation_by_handle: hands the handle, a str, to
\* ScoOperationsRegistry.register_operation, whose read of operation.handle
\* raises AttributeError before the registry or the mdib is touched
SdcDevice_unregister_operation_by_handle(h) ==
    /\ h \in registered_operations
    /\ registry_calls' = [registry_calls EXCEPT ![h] = "device_unregister"]
    /\ UNCHANGED <<registered_operations, descriptions, states, store_vars, engine_vars,
                   caller_vars, history_vars, budget_vars>>

\* ------------------------------------------------------ worker life cycle

start_worker ==
    /\ worker = NoWorker          \* otherwise RuntimeError, nothing changes
    /\ created < MaxWorkers
    /\ created' = created + 1
    /\ worker' = created + 1
    /\ wpc' = [wpc EXCEPT ![created + 1] = "get"]
    /\ UNCHANGED <<operations_queue, transaction_id, from_queue, wex,
                   registry_vars, caller_vars, history_vars, budget_vars>>

\* mutant: the sentinel overtakes what is queued
PutSentinel_AtFront(q) == <<StopItem>> \o q

\* self._operations_queue.put('stop_sco')
PutSentinel(q) == Append(q, StopItem)

\* stop_worker is called and finds a worker: self._worker.stop() is entered,
\* the put of the sentinel is still to come
stop_worker(t) ==
    /\ cpc[t] = "idle"
    /\ worker # NoWorker
    /\ cref' = [cref EXCEPT ![t] = worker]
    /\ cpc' = [cpc EXCEPT ![t] = "stop"]
    /\ UNCHANGED <<engine_vars, registry_vars, citem, cclass, reply, history_vars, budget_vars>>

\* the worker a stopping thread puts the sentinel to: the one it entered
\* stop() of, or the registry's worker when call and put are one step
StoppedWorker(t) == IF cpc[t] = "stop" THEN cref[t] ELSE worker

\* stop_worker, first half: _OperationsWorker.stop puts the sentinel with a
\* blocking put (no timeout), so it waits while the queue is full.  Taken
\* from "idle" it is the call and its put in one step.
stop_worker_put(t) ==
    /\ cpc[t] \in {"idle", "stop"}
    /\ StoppedWorker(t) # NoWorker
    /\ Len(operations_queue[StoppedWorker(t)]) < QueueSize
    /\ operations_queue' = [operations_queue EXCEPT ![StoppedWorker(t)] = PutSentinel(@)]
    /\ cref' = [cref EXCEPT ![t] = StoppedWorker(t)]
    /\ cpc' = [cpc EXCEPT ![t] = "join"]
    /\ stop_requested' = stop_requested \cup {StoppedWorker(t)}
    /\ before_stop' = IF StoppedWorker(t) \in stop_requested THEN before_stop
                      ELSE before_stop \cup {i \in accepted : i.w = StoppedWorker(t)}
    /\ UNCHANGED <<worker, created, transaction_id, wpc, from_queue, wex, registry_vars,
                   citem, cclass, reply, notifications, accepted, returned, full_rejected, executing,
                   effect_raised, sink_raised, handled, budget_vars>>

\* stop_worker, second half: join(timeout=1) returns when the thread has
\* ended or when the timeout expires, then the registry forgets the worker.
stop_worker_join(t) ==
    /\ cpc[t] = "join"
    /\ worker' = NoWorker
    /\ cpc' = [cpc EXCEPT ![t] = "idle"]
    /\ cref' = [cref EXCEPT ![t] = NoWorker]
    /\ UNCHANGED <<created, operations_queue, transaction_id, wpc, from_queue, wex,
                   registry_vars, citem, cclass, reply, history_vars, budget_vars>>

\* ------------------------------------------------------------- admission

\* mutant: the counter is read but not incremented
NextTransactionId_NotIncremented(n) == n

\* the id that follows n
NextTransactionId(n) == n + 1

\* _OperationsWorker.enqueue_operation, the part under _transaction_id_lock:
\* read the counter and increment it.
TakeTransactionId(t, h, cls) ==
    /\ worker # NoWorker
    /\ calls_left > 0
    /\ calls_left' = calls_left - 1
    /\ cref' = [cref EXCEPT ![t] = worker]
    /\ citem' = [citem EXCEPT ![t] = OpItem(transaction_id[worker], h)]
    /\ transaction_id' = [transaction_id EXCEPT ![worker] = NextTransactionId(@)]
    /\ cclass' = [cclass EXCEPT ![t] = cls]
    /\ cpc' = [cpc EXCEPT ![t] = "put"]
    /\ UNCHANGED <<worker, created, operations_queue, wpc, from_queue, wex, registry_vars,
                   reply, notifications, accepted, returned, full_rejected, executing, effect_raised,
                   sink_raised, handled, stop_requested, before_stop, faults_left>>

\* the synchronous FAILED / INVALID_VALUE response, transaction id 0
RejectRequest(t, cls) ==
    /\ reply' = [cls |-> cls, state |-> FAILED, error |-> INVALID_VALUE, tid |-> 0]
    /\ UNCHANGED <<engine_vars, registry_vars, cpc, cref, citem, cclass,
                   history_vars, budget_vars>>

\* how a request relates to the registry, independent of the handler's checks
RequestClass(tag, h) ==
    IF h \notin registered_operations THEN "unknown"
    ELSE IF tag # OP_QNAME(h) THEN "mismatch"
    ELSE "match"

\* SetService._handle_operation_request: error texts collected for a request
\* that carries one OperationHandleRef
SetServiceErrors(tag, h) ==
    LET operation == get_operation_by_handle(registered_operations, h) IN
    IF operation = "None" THEN {"operation not known"}
    ELSE IF tag # OP_QNAME(operation) THEN {"mismatch Operation"}
    ELSE {}

handle_operation_request(t, tag, h) ==
    /\ cpc[t] = "idle"
    /\ IF SetServiceErrors(tag, h) # {}
         THEN RejectRequest(t, RequestClass(tag, h))
         ELSE TakeTransactionId(t, h, RequestClass(tag, h))

\* ContextService._on_set_context_state: the handle is searched below a
\* msg:SetContextState body element only; the operation's OP_QNAME is never
\* compared with the request tag.
ContextServiceErrors(tag, h) ==
    IF tag # "SetContextState" THEN {"no OperationHandleRef found"}
    ELSE IF get_operation_by_handle(registered_operations, h) = "None"
         THEN {"operation not known"}
    ELSE {}

on_set_context_state(t, tag, h) ==
    /\ cpc[t] = "idle"
    /\ IF ContextServiceErrors(tag, h) # {}
         THEN RejectRequest(t, RequestClass(tag, h))
         ELSE TakeTransactionId(t, h, RequestClass(tag, h))

\* the response a service handler builds once enqueue_operation is back; a
\* direct caller of the registry builds none
ServiceReply(cls, state, tid) ==
    IF cls = "direct" THEN reply
    ELSE [cls |-> cls, state |-> state, error |-> NoError, tid |-> tid]

\* SdcDevice.enqueue_operation / ScoOperationsRegistry.enqueue_operation called
\* with an operation object, without a request handler in front
enqueue_operation(t, h) ==
    /\ cpc[t] = "idle"
    /\ TakeTransactionId(t, h, "direct")

\* mutant: a put that ignores the capacity
QueuePut_Unbounded(q, item) == Append(q, item)

\* Queue.put(item, timeout=1) on a queue of QueueSize slots
QueuePut(q, item) == IF Len(q) < QueueSize THEN Append(q, item) ELSE q
QueueHasRoom(q) == Len(q) < QueueSize

\* _OperationsWorker.enqueue_operation, the put: either the item is placed, or
\* queue.Full propagates to the caller.
enqueue_operation_put(t) ==
    LET w == cref[t]
        inv == Inv(w, citem[t]) IN
    /\ cpc[t] = "put"
    /\ operations_queue' = [operations_queue EXCEPT ![w] = QueuePut(@, citem[t])]
    /\ IF QueueHasRoom(operations_queue[w])
         THEN /\ accepted' = accepted \cup {inv}
              /\ cpc' = [cpc EXCEPT ![t] = "return"]
              /\ UNCHANGED <<full_rejected, reply, cref, citem, cclass>>
         ELSE /\ full_rejected' = full_rejected \cup {inv}
              /\ reply' = ServiceReply(cclass[t], "queue.Full", 0)
              /\ cpc' = [cpc EXCEPT ![t] = "idle"]
              /\ cref' = [cref EXCEPT ![t] = NoWorker]
              /\ citem' = [citem EXCEPT ![t] = NoItem]
              /\ cclass' = [cclass EXCEPT ![t] = "none"]
              /\ UNCHANGED accepted
    /\ UNCHANGED <<worker, created, transaction_id, wpc, from_queue, wex, registry_vars,
                   notifications, returned, executing, effect_raised, sink_raised, handled,
                   stop_requested, before_stop, budget_vars>>

\* _OperationsWorker.enqueue_operation, "return transaction_id" after the put:
\* the caller now holds the id (a service handler writes it into its response)
enqueue_operation_return(t) ==
    LET inv == Inv(cref[t], citem[t]) IN
    /\ cpc[t] = "return"
    /\ returned' = returned \cup {inv}
    /\ reply' = ServiceReply(cclass[t], WAIT, inv.tid)
    /\ cpc' = [cpc EXCEPT ![t] = "idle"]
    /\ cref' = [cref EXCEPT ![t] = NoWorker]
    /\ citem' = [citem EXCEPT ![t] = NoItem]
    /\ cclass' = [cclass EXCEPT ![t] = "none"]
    /\ UNCHANGED <<engine_vars, registry_vars, notifications, accepted, full_rejected,
                   executing, effect_raised, sink_raised, handled, stop_requested, before_stop,
                   budget_vars>>

\* ------------------------------------------------------- _OperationsWorker.run

\* mutant: START is not sent
NextPc_SkipStart(pc, raised) ==
    CASE pc = "wait"    -> IF raised THEN "outer" ELSE "exec"
      [] pc = "start"   -> IF raised THEN "outer" ELSE "exec"
      [] pc = "exec"    -> "running"
      [] pc = "running" -> IF raised THEN "fail" ELSE "fin"
      [] pc = "fin"     -> IF raised THEN "fail" ELSE "get"
      [] pc = "fail"    -> IF raised THEN "outer" ELSE "get"
      [] pc = "outer"   -> "get"

\* mutant: a raising effect is reported like one that returned
NextPc_FailureAsFinished(pc, raised) ==
    CASE pc = "wait"    -> IF raised THEN "outer" ELSE "start"
      [] pc = "start"   -> IF raised THEN "outer" ELSE "exec"
      [] pc = "exec"    -> "running"
      [] pc = "running" -> "fin"
      [] pc = "fin"     -> IF raised THEN "fail" ELSE "get"
      [] pc = "fail"    -> IF raised THEN "outer" ELSE "get"
      [] pc = "outer"   -> "get"

\* mutant: the item is dropped once its effect returned, no terminal state sent
NextPc_NoTerminal(pc, raised) ==
    CASE pc = "wait"    -> IF raised THEN "outer" ELSE "start"
      [] pc = "start"   -> IF raised THEN "outer" ELSE "exec"
      [] pc = "exec"    -> "running"
      [] pc = "running" -> IF raised THEN "fail" ELSE "outer"
      [] pc = "fin"     -> IF raised THEN "fail" ELSE "get"
      [] pc = "fail"    -> IF raised THEN "outer" ELSE "get"
      [] pc = "outer"   -> "get"

\* Control flow of run(): the position that follows position pc when the call
\* made there returns (raised = FALSE) or raises (raised = TRUE).
\*   wait / start : notify_operation(WAIT / START); a raise goes to the outer except
\*   running      : operation.execute_operation
\*   fin          : notify_operation(FINISHED), inside the inner try
\*   fail         : notify_operation(FAILED), inside the inner except
\*   outer        : the outer except block, then the next loop iteration
NextPc(pc, raised) ==
    CASE pc = "wait"    -> IF raised THEN "outer" ELSE "start"
      [] pc = "start"   -> IF raised THEN "outer" ELSE "exec"
      [] pc = "exec"    -> "running"
      [] pc = "running" -> IF raised THEN "fail" ELSE "fin"
      [] pc = "fin"     -> IF raised THEN "fail" ELSE "get"
      [] pc = "fail"    -> IF raised THEN "outer" ELSE "get"
      [] pc = "outer"   -> "get"

\* InvocationState passed to notify_operation at each position
NotifyState(pc) ==
    CASE pc = "wait"  -> WAIT
      [] pc = "start" -> START
      [] pc = "fin"   -> FINISHED
      [] pc = "fail"  -> FAILED

\* error / error_message keyword arguments of the notification
NotifyError(pc) == IF pc = "fail" THEN ERROR_OTHER ELSE NoError
NotifyMessage(pc, ex) == IF pc = "fail" THEN Repr(ex) ELSE <<>>

\* mutant: START carries the id the counter handed out last, not the item's
Notification_CounterId(w, item, pc, ex) ==
    [w |-> w, tid |-> IF pc = "start" THEN transaction_id[w] - 1 ELSE item.tid,
     op |-> item.op, state |-> NotifyState(pc),
     error |-> NotifyError(pc), msg |-> NotifyMessage(pc, ex)]

\* the notification run() sends for item at position pc
Notification(w, item, pc, ex) ==
    [w |-> w, tid |-> item.tid, op |-> item.op, state |-> NotifyState(pc),
     error |-> NotifyError(pc), msg |-> NotifyMessage(pc, ex)]

\* mutant: execute_operation comes back while the effect is still running
EffectLeft_StillRunning(ex, inv) == ex

\* effects in progress after execute_operation was entered / left
EffectEntered(ex, inv) == ex \cup {inv}
EffectLeft(ex, inv) == ex \ {inv}

\* an object handed to enqueue_operation that has no handle attribute
HandlelessOperation == "object"
HasHandle(op) == op \in Handles

\* mutant: the outer except block never fails
AfterOuterExcept_AlwaysLoops(item) == "get"

\* the position after the unpacking of an item: the 'starting operation' log
\* line reads operation.handle before WAIT is sent, and an AttributeError
\* there goes to the outer except block
AfterGet(item) == IF HasHandle(item.op) THEN "wait" ELSE "outer"

\* the outer except block logs operation.handle too; an exception raised in
\* it leaves run(), and the thread ends
AfterOuterExcept(item) == IF HasHandle(item.op) THEN NextPc("outer", FALSE) ELSE "dead"

\* from_queue = self._operations_queue.get(); the sentinel ends the thread
worker_get(w) ==
    /\ wpc[w] = "get"
    /\ operations_queue[w] # <<>>
    /\ operations_queue' = [operations_queue EXCEPT ![w] = Tail(@)]
    /\ IF Head(operations_queue[w]) = StopItem
         THEN /\ wpc' = [wpc EXCEPT ![w] = "done"]
              /\ UNCHANGED from_queue
         ELSE /\ wpc' = [wpc EXCEPT ![w] = AfterGet(Head(operations_queue[w]))]
              /\ from_queue' = [from_queue EXCEPT ![w] = Head(operations_queue[w])]
    /\ UNCHANGED <<worker, created, transaction_id, wex, registry_vars, caller_vars,
                   history_vars, budget_vars>>

\* what changes when run() leaves the item it was handling
LeaveItem(w, next) ==
    IF next = "get"
      THEN handled' = handled \cup {Inv(w, from_queue[w])}
      ELSE UNCHANGED handled

\* a notify_operation call that returns
worker_notify(w) ==
    LET next == NextPc(wpc[w], FALSE) IN
    /\ wpc[w] \in {"wait", "start", "fin", "fail"}
    /\ notifications' = [notifications EXCEPT ![w] = Append(@, Notification(w, from_queue[w], wpc[w], wex[w]))]
    /\ wpc' = [wpc EXCEPT ![w] = next]
    /\ LeaveItem(w, next)
    /\ UNCHANGED <<worker, created, operations_queue, transaction_id, from_queue, wex,
                   registry_vars, caller_vars, accepted, returned, full_rejected, executing,
                   effect_raised, sink_raised, stop_requested, before_stop,
                   budget_vars>>

\* a notify_operation call that raises
worker_notify_raises(w) ==
    LET next == NextPc(wpc[w], TRUE) IN
    /\ wpc[w] \in {"wait", "start", "fin", "fail"}
    /\ faults_left > 0
    /\ faults_left' = faults_left - 1
    /\ sink_raised' = sink_raised \cup {Inv(w, from_queue[w])}
    /\ wex' = [wex EXCEPT ![w] = IF next = "fail" THEN SinkError ELSE @]
    /\ wpc' = [wpc EXCEPT ![w] = next]
    /\ UNCHANGED <<worker, created, operations_queue, transaction_id, from_queue,
                   registry_vars, caller_vars, notifications, accepted, returned, full_rejected,
                   executing, effect_raised, handled, stop_requested, before_stop,
                   calls_left>>

\* operation.execute_operation(request, operation_request) is entered
worker_execute(w) ==
    /\ wpc[w] = "exec"
    /\ executing' = EffectEntered(executing, Inv(w, from_queue[w]))
    /\ wpc' = [wpc EXCEPT ![w] = NextPc("exec", FALSE)]
    /\ UNCHANGED <<worker, created, operations_queue, transaction_id, from_queue, wex,
                   registry_vars, caller_vars, notifications, accepted, returned, full_rejected,
                   effect_raised, sink_raised, handled, stop_requested, before_stop,
                   budget_vars>>

\* execute_operation returns normally
worker_effect_returns(w) ==
    /\ wpc[w] = "running"
    /\ executing' = EffectLeft(executing, Inv(w, from_queue[w]))
    /\ wpc' = [wpc EXCEPT ![w] = NextPc("running", FALSE)]
    /\ UNCHANGED <<worker, created, operations_queue, transaction_id, from_queue, wex,
                   registry_vars, caller_vars, notifications, accepted, returned, full_rejected,
                   effect_raised, sink_raised, handled, stop_requested, before_stop,
                   budget_vars>>

\* execute_operation raises
worker_effect_raises(w) ==
    /\ wpc[w] = "running"
    /\ faults_left > 0
    /\ faults_left' = faults_left - 1
    /\ executing' = EffectLeft(executing, Inv(w, from_queue[w]))
    /\ effect_raised' = effect_raised \cup {Inv(w, from_queue[w])}
    /\ wex' = [wex EXCEPT ![w] = EffectError]
    /\ wpc' = [wpc EXCEPT ![w] = NextPc("running", TRUE)]
    /\ UNCHANGED <<worker, created, operations_queue, transaction_id, from_queue,
                   registry_vars, caller_vars, notifications, accepted, returned, full_rejected,
                   sink_raised, handled, stop_requested, before_stop, calls_left>>

\* the outer except block: log the error, go on with the next iteration
worker_outer_except(w) ==
    /\ wpc[w] = "outer"
    /\ wpc' = [wpc EXCEPT ![w] = AfterOuterExcept(from_queue[w])]
    /\ handled' = handled \cup {Inv(w, from_queue[w])}
    /\ UNCHANGED <<worker, created, operations_queue, transaction_id, from_queue, wex,
                   registry_vars, caller_vars, notifications, accepted, returned, full_rejected,
                   executing, effect_raised, sink_raised,
                   stop_requested, before_stop, budget_vars>>

worker_step(w) ==
    \/ worker_get(w)
    \/ worker_notify(w)
    \/ worker_notify_raises(w)
    \/ worker_execute(w)
    \/ worker_effect_returns(w)
    \/ worker_effect_raises(w)
    \/ worker_outer_except(w)

\* ------------------------------------------------ roles/contextprovider.py
\* A handle is the sequence of the "_"-separated parts of its string.  The
\* transaction manager is used through its contract: get_state hands out a
\* working copy, add_state collects a new state, leaving the with-block
\* normally commits (version increments included), leaving it by an exception
\* commits nothing.  An insert whose handle collides fails with an error; a
\* state fetched twice in one transaction either raises or is the same copy.

MaxEffects == 2
MaxProposedTotal == 3
MaxProposed == 2

NO_ASSOCIATION == "No"
PRE_ASSOCIATION == "Pre"
ASSOCIATED == "Assoc"
DISASSOCIATED == "Dis"
Unset == -1
ClientNumber == 7

ContextDescriptors == {<<"loc">>, <<"ens">>}

\* f'{proposed_st.descriptorHandle}_{self._mdib.mdib_version}'
GeneratedHandle(dh, v) == dh \o <<ToString(v)>>

\* operation_target_storage.handle.get_one(Handle, allow_none=True)
StatesWithHandle(store, h) == {s \in store : s.Handle = h}

\* operation_target_storage.descriptorHandle.get(descriptorHandle, [])
StatesOfDescriptor(store, dh) == {s \in store : s.descriptorHandle = dh}

EmptyTransaction == [new |-> {}, upd |-> {}]

\* mgr.get_state(descriptorHandle, Handle): the working copy of a stored state
WorkingCopy(store, dh, h) == CHOOSE s \in store : s.Handle = h /\ s.descriptorHandle = dh

\* leaving the with-block normally: working copies replace the stored states,
\* their StateVersion incremented, and new states are added
Commit(store, tx) ==
    {s \in store : \A u \in tx.upd : u.Handle # s.Handle}
       \cup {[u EXCEPT !.StateVersion = @ + 1] : u \in tx.upd}
       \cup tx.new

\* the new-state branch: handle, binding version / time and association
NewState(p, v, now) ==
    [p EXCEPT !.Handle = GeneratedHandle(p.descriptorHandle, v),
              !.BindingMdibVersion = v,
              !.BindingStartTime = now,
              !.ContextAssociation = ASSOCIATED]

\* mutant: no stored state is taken for disassociation
NeedsDisassociation_Never(s) == FALSE

NeedsDisassociation(s) ==
    s.ContextAssociation # DISASSOCIATED \/ s.UnbindingMdibVersion = Unset

\* mutant: unbinding info is written whether or not it was set
Disassociate_OverwritesUnbinding(s, v, now) ==
    [s EXCEPT !.ContextAssociation = DISASSOCIATED,
              !.UnbindingMdibVersion = v,
              !.BindingEndTime = now]

Disassociate(s, v, now) ==
    IF s.UnbindingMdibVersion = Unset
      THEN [s EXCEPT !.ContextAssociation = DISASSOCIATED,
                     !.UnbindingMdibVersion = v,
                     !.BindingEndTime = now]
      ELSE [s EXCEPT !.ContextAssociation = DISASSOCIATED]

\* mutant: the merge skips nothing
update_from_other_container_SkipsNothing(tmp, p) == p

\* tmp.update_from_other_container(proposed_st, skipped_properties=[...])
update_from_other_container(tmp, p) ==
    [p EXCEPT !.ContextAssociation = tmp.ContextAssociation,
              !.BindingMdibVersion = tmp.BindingMdibVersion,
              !.UnbindingMdibVersion = tmp.UnbindingMdibVersion,
              !.BindingStartTime = tmp.BindingStartTime,
              !.BindingEndTime = tmp.BindingEndTime,
              !.StateVersion = tmp.StateVersion]

\* mutant: a handle that is not found is taken for a new state
IsUpdate_OnlyIfFound(store, p) ==
    p.descriptorHandle # p.Handle /\ StatesWithHandle(store, p.Handle) # {}

\* proposed_st.descriptorHandle != proposed_st.Handle
IsUpdate(store, p) == p.descriptorHandle # p.Handle

\* what the transaction manager answers to a second get_state for one state
\* in one transaction: ValueError, or the working copy it handed out before
RefetchOutcomes == {"raise", "same"}

\* the working copies of the transaction with handle h
Fetched(tx, h) == {u \in tx.upd : u.Handle = h}

\* mgr.get_state(descriptorHandle, Handle) inside a transaction
get_state(tx, store, dh, h) ==
    IF Fetched(tx, h) # {} THEN CHOOSE u \in Fetched(tx, h) : TRUE
    ELSE WorkingCopy(store, dh, h)

\* the transaction after the working copy u was modified
Modified(tx, u) == [tx EXCEPT !.upd = {x \in @ : x.Handle # u.Handle} \cup {u}]

\* mutant: an insert that does not look for the handle
HandleCollision_Unnoticed(tx, store, s) == FALSE

\* handle collision on insert: the handle of s is the handle of a state of the
\* store or of a state added in this transaction
HandleCollision(tx, store, s) == \E x \in store \cup tx.new : x.Handle = s.Handle

\* mgr.add_state(proposed_st)
add_state(tx, s) == [tx EXCEPT !.new = @ \cup {s}]

\* the stored states of the descriptor that the new-state branch disassociates
ToDisassociate(store, dh) == {s \in StatesOfDescriptor(store, dh) : NeedsDisassociation(s)}

\* the loop over old_state_containers: each state fetched and disassociated
DisassociateAll(tx, store, v, now, dh) ==
    [tx EXCEPT !.upd =
        {x \in @ : \A o \in ToDisassociate(store, dh) : o.Handle # x.Handle}
           \cup {Disassociate(get_state(tx, store, dh, o.Handle), v, now) :
                    o \in ToDisassociate(store, dh)}]

\* the body of the loop over proposed_context_states for one proposed state
ProposedStateStep(tx, store, v, now, p, refetch) ==
    IF IsUpdate(store, p) /\ StatesWithHandle(store, p.Handle) = {}
      THEN [raised |-> TRUE, tx |-> tx]       \* ValueError('handle ... not found')
    ELSE IF ~IsUpdate(store, p)
      THEN IF \/ HandleCollision(tx, store, NewState(p, v, now))
              \/ /\ refetch = "raise"
                 /\ \E o \in ToDisassociate(store, p.descriptorHandle) : Fetched(tx, o.Handle) # {}
             THEN [raised |-> TRUE, tx |-> tx]
             ELSE [raised |-> FALSE,
                   tx |-> DisassociateAll(add_state(tx, NewState(p, v, now)), store, v, now,
                                          p.descriptorHandle)]
    ELSE IF refetch = "raise" /\ Fetched(tx, p.Handle) # {}
      THEN [raised |-> TRUE, tx |-> tx]
    ELSE [raised |-> FALSE,
          tx |-> Modified(tx, update_from_other_container(
                                 get_state(tx, store, p.descriptorHandle, p.Handle), p))]

RECURSIVE ProposedStatesLoop(_, _, _, _, _, _)
ProposedStatesLoop(tx, store, v, now, ps, refetch) ==
    IF ps = <<>> THEN [raised |-> FALSE, tx |-> tx]
    ELSE LET r == ProposedStateStep(tx, store, v, now, Head(ps), refetch) IN
         IF r.raised THEN r
         ELSE ProposedStatesLoop(r.tx, store, v, now, Tail(ps), refetch)

\* GenericContextProvider._set_context_state run as the effect of an
\* invocation, up to the terminal state the worker reports for it
set_context_state(ps, refetch) ==
    LET r == ProposedStatesLoop(EmptyTransaction, context_states, mdib_version, clock, ps,
                                refetch) IN
    /\ effects_left >= Len(ps)       \* the budget counts proposed states here
    /\ effects_left' = effects_left - Len(ps)
    /\ request' = ps
    /\ prev_states' = context_states
    /\ clock' = clock + 1
    /\ outcome' = NotifyState(NextPc("running", r.raised))
    /\ context_states' = IF r.raised THEN context_states ELSE Commit(context_states, r.tx)
    /\ mdib_version' = IF r.raised THEN mdib_version ELSE mdib_version + 1
    /\ UNCHANGED <<engine_vars, registered_operations, descriptions, states, registry_calls, metric_vars,
                   descriptor_vars, caller_vars, history_vars, budget_vars>>

\* what a client may send in the fields of a proposed state
ClientFields ==
    {[ContextAssociation |-> PRE_ASSOCIATION, BindingMdibVersion |-> ClientNumber,
      UnbindingMdibVersion |-> ClientNumber, BindingStartTime |-> ClientNumber,
      BindingEndTime |-> ClientNumber, StateVersion |-> ClientNumber]}

\* the fields of a state nothing has bound yet
UnboundFields ==
    [ContextAssociation |-> NO_ASSOCIATION, BindingMdibVersion |-> Unset,
     UnbindingMdibVersion |-> Unset, BindingStartTime |-> Unset,
     BindingEndTime |-> Unset, StateVersion |-> 0]

ContextState(h, dh, c, payload) ==
    [Handle |-> h, descriptorHandle |-> dh, payload |-> payload,
     ContextAssociation |-> c.ContextAssociation,
     BindingMdibVersion |-> c.BindingMdibVersion,
     UnbindingMdibVersion |-> c.UnbindingMdibVersion,
     BindingStartTime |-> c.BindingStartTime,
     BindingEndTime |-> c.BindingEndTime,
     StateVersion |-> c.StateVersion]

\* the proposed states a request may carry: the descriptor handle itself, the
\* handle of a stored state of the descriptor, or a handle that is not stored
ProposedHandles(store, dh) ==
    {dh} \cup (IF dh = <<"loc">> THEN {dh \o <<"zz">>} ELSE {})
         \cup {s.Handle : s \in StatesOfDescriptor(store, dh)}

\* payload stands for what a proposed state carries besides its handles and
\* engine fields; the proposed states of one request differ in it
ProposedStates(store, payload) ==
    UNION {{ContextState(h, dh, c, payload) :
               h \in ProposedHandles(store, dh), c \in ClientFields} :
           dh \in ContextDescriptors}

\* requests of n proposed states, several for one descriptor included
RECURSIVE RequestsOfLen(_, _)
RequestsOfLen(store, n) ==
    IF n = 0 THEN {<<>>}
    ELSE UNION {{r \o <<p>> : r \in RequestsOfLen(store, n - 1)} : p \in ProposedStates(store, n)}

Requests(store) == UNION {RequestsOfLen(store, n) : n \in 1..MaxProposed}

\* context states the model builder may have put into the store
\* (one of them has the handle the provider generates at version 2)
BuilderStates ==
    {[ContextState(<<"loc", "a">>, <<"loc">>, UnboundFields, 0) EXCEPT
         !.ContextAssociation = a, !.UnbindingMdibVersion = u, !.BindingEndTime = u] :
        a \in {NO_ASSOCIATION, ASSOCIATED, DISASSOCIATED},
        u \in {Unset, 0}}
       \cup {ContextState(GeneratedHandle(<<"loc">>, 2), <<"loc">>, UnboundFields, 0)}

InitCtx ==
    /\ EngineInit(0, 0)
    /\ IdleMetric
    /\ IdleDescriptor
    /\ context_states \in {{}} \cup {{b} : b \in BuilderStates}
    /\ mdib_version = 1
    /\ clock = 1
    /\ request = <<>>
    /\ prev_states = {}
    /\ outcome = "none"
    /\ effects_left = MaxProposedTotal

NextCtx ==
    \E ps \in Requests(context_states), refetch \in RefetchOutcomes : set_context_state(ps, refetch)

SpecCtx == InitCtx /\ [][NextCtx]_vars

\* ------------------------------------------------------- metric setters
\* ProviderRole._set_numeric_value and _set_string: the effects of SetValue
\* and SetString operations. The metric state container and the transaction
\* manager are not part of the sources; the metric value is the
\* pmtypes.AbstractMetricValue the state holds.

\* AbstractMetricValue.__init__(node=None): MetricQuality.Validity is preset
MetricValue(value, validity) ==
    [Value |-> value, MetricQuality |-> [Validity |-> validity], Validity |-> NoAttribute]

\* state.mk_metric_value()
mk_metric_value(state) == [state EXCEPT !.metricValue = <<MetricValue(NoValue, VALID)>>]

\* state.metricValue.Value = value
AssignValue(mv, value) == [mv EXCEPT !.Value = value]

\* state.metricValue.Validity = VALID: AbstractMetricValue declares no
\* Validity property, the assignment makes an attribute of the instance and
\* leaves MetricQuality.Validity alone
AssignValidity(mv, validity) == [mv EXCEPT !.Validity = validity]

\* the body of the with-block of both setters
SetMetricValue(state, category, value) ==
    LET present == IF state.metricValue = NoMetricValue THEN mk_metric_value(state) ELSE state
        assigned == AssignValue(present.metricValue[1], value)
        marked == IF category \in {SETTING, PRESETTING}
                  THEN AssignValidity(assigned, VALID) ELSE assigned
    IN [present EXCEPT !.metricValue = <<marked>>]

\* leaving the with-block: the working copy replaces the stored state, its
\* StateVersion incremented
CommitMetric(state) == [state EXCEPT !.StateVersion = @ + 1]

SetMetric(kind, value) ==
    /\ effects_left > 0
    /\ metric_state.kind = kind
    /\ effects_left' = effects_left - 1
    /\ current_value' = value
    /\ prev_metric' = metric_state
    /\ metric_state' = CommitMetric(SetMetricValue(metric_state, metric_category, value))
    /\ UNCHANGED <<metric_category, context_vars, descriptor_vars, engine_vars,
                   registered_operations, descriptions, states, registry_calls, caller_vars, history_vars,
                   budget_vars>>

_set_numeric_value(value) == SetMetric("numeric", value)

_set_string(value) == SetMetric("string", value)

NumericValues == {"0", "42.0"}
StringValues == {"on", "off"}

\* the metric the mdib was built with: any category, numeric or string, with
\* or without a metric value
InitMetric ==
    /\ EngineInit(0, 0)
    /\ IdleDescriptor
    /\ context_states = {}
    /\ mdib_version = 1
    /\ clock = 1
    /\ request = <<>>
    /\ prev_states = {}
    /\ outcome = "none"
    /\ metric_category \in MetricCategory
    /\ \E kind \in {"numeric", "string"} :
          metric_state \in {MetricState(kind, NoMetricValue)}
              \cup {MetricState(kind, <<MetricValue("built", q)>>) :
                       q \in {VALID, QUESTIONABLE, INVALID}}
    /\ prev_metric = metric_state
    /\ current_value = NoValue
    /\ effects_left = MaxEffects

NextMetric ==
    \/ \E value \in NumericValues : _set_numeric_value(value)
    \/ \E value \in StringValues : _set_string(value)

SpecMetric == InitMetric /\ [][NextMetric]_vars

\* -------------------------------------------------- descriptor containers
\* mdib/descriptorcontainers.py: the child declarations of the descriptor
\* classes, addChild / rmChild and mk_descriptor_node. Child containers are
\* leaves here (their own sub-trees are not followed), and _updateNode, which
\* is not part of the sources, is taken to make the sub elements listed in
\* property_nodes, in that order.

MaxChildOps == 3

ChildElem(child_qname) == [child_qname |-> child_qname, conts |-> FALSE, node_types |-> {}]
ChildConts(child_qname, node_types) ==
    [child_qname |-> child_qname, conts |-> TRUE, node_types |-> node_types]

MetricNodeTypes ==
    {"NumericMetricDescriptor", "StringMetricDescriptor", "EnumStringMetricDescriptor",
     "RealTimeSampleArrayMetricDescriptor", "DistributionSampleArrayMetricDescriptor"}

OperationNodeTypes ==
    {"SetValueOperationDescriptor", "SetStringOperationDescriptor",
     "SetContextStateOperationDescriptor", "SetMetricStateOperationDescriptor",
     "SetComponentStateOperationDescriptor", "SetAlertStateOperationDescriptor",
     "ActivateOperationDescriptor"}

\* the class a descriptor class is derived from
Base(cls) ==
    CASE cls = "AbstractDescriptorContainer" -> "ContainerBase"
      [] cls \in {"AbstractDeviceComponentDescriptorContainer",
                  "AbstractMetricDescriptorContainer",
                  "AbstractAlertDescriptorContainer"} -> "AbstractDescriptorContainer"
      [] cls \in {"AbstractComplexDeviceComponentDescriptorContainer",
                  "ChannelDescriptorContainer", "ClockDescriptorContainer",
                  "ScoDescriptorContainer"} -> "AbstractDeviceComponentDescriptorContainer"
      [] cls \in {"MdsDescriptorContainer", "VmdDescriptorContainer"}
            -> "AbstractComplexDeviceComponentDescriptorContainer"
      [] cls \in {"NumericMetricDescriptorContainer", "StringMetricDescriptorContainer",
                  "RealTimeSampleArrayMetricDescriptorContainer",
                  "DistributionSampleArrayMetricDescriptorContainer"}
            -> "AbstractMetricDescriptorContainer"
      [] cls = "EnumStringMetricDescriptorContainer" -> "StringMetricDescriptorContainer"
      [] cls \in {"AlertSystemDescriptorContainer", "AlertConditionDescriptorContainer"}
            -> "AbstractAlertDescriptorContainer"
      [] cls = "LimitAlertConditionDescriptorContainer" -> "AlertConditionDescriptorContainer"

\* cls.__dict__['_children'], the empty sequence where the class has none
_children(cls) ==
    CASE cls = "AbstractDescriptorContainer" -> <<ChildElem("Extension"), ChildElem("Type")>>
      [] cls = "AbstractDeviceComponentDescriptorContainer"
            -> <<ChildElem("ProductionSpecification")>>
      [] cls = "AbstractComplexDeviceComponentDescriptorContainer"
            -> <<ChildConts("AlertSystem", {"AlertSystemDescriptor"}),
                 ChildConts("Sco", {"ScoDescriptor"})>>
      [] cls = "MdsDescriptorContainer"
            -> <<ChildElem("MetaData"),
                 ChildConts("SystemContext", {"SystemContextDescriptor"}),
                 ChildConts("Clock", {"ClockDescriptor"}),
                 ChildConts("Battery", {"BatteryDescriptor"}),
                 ChildElem("ApprovedJurisdictions"),
                 ChildConts("Vmd", {"VmdDescriptor"})>>
      [] cls = "VmdDescriptorContainer" -> <<ChildConts("Channel", {"ChannelDescriptor"})>>
      [] cls = "ChannelDescriptorContainer" -> <<ChildConts("Metric", MetricNodeTypes)>>
      [] cls = "ClockDescriptorContainer" -> <<ChildElem("TimeProtocol")>>
      [] cls = "ScoDescriptorContainer" -> <<ChildConts("Operation", OperationNodeTypes)>>
      [] cls = "AbstractMetricDescriptorContainer"
            -> <<ChildElem("Unit"), ChildElem("BodySite"), ChildElem("Relation")>>
      [] cls \in {"NumericMetricDescriptorContainer",
                  "RealTimeSampleArrayMetricDescriptorContainer"}
            -> <<ChildElem("TechnicalRange")>>
      [] cls = "EnumStringMetricDescriptorContainer" -> <<ChildElem("AllowedValue")>>
      [] cls = "DistributionSampleArrayMetricDescriptorContainer"
            -> <<ChildElem("TechnicalRange"), ChildElem("DomainUnit"),
                 ChildElem("DistributionRange")>>
      [] cls = "AlertSystemDescriptorContainer"
            -> <<ChildConts("AlertCondition", {"AlertConditionDescriptor",
                                               "LimitAlertConditionDescriptor"}),
                 ChildConts("AlertSignal", {"AlertSignalDescriptor"})>>
      [] cls = "AlertConditionDescriptorContainer"
            -> <<ChildElem("Source"), ChildElem("CauseInfo")>>
      [] cls = "LimitAlertConditionDescriptorContainer" -> <<ChildElem("MaxLimits")>>
      [] OTHER -> <<>>

\* the classes with a NODETYPE the model builds containers of
DescriptorClasses ==
    {"MdsDescriptorContainer", "VmdDescriptorContainer", "ChannelDescriptorContainer",
     "ClockDescriptorContainer", "ScoDescriptorContainer",
     "NumericMetricDescriptorContainer", "StringMetricDescriptorContainer",
     "EnumStringMetricDescriptorContainer", "RealTimeSampleArrayMetricDescriptorContainer",
     "DistributionSampleArrayMetricDescriptorContainer",
     "AlertSystemDescriptorContainer", "AlertConditionDescriptorContainer",
     "LimitAlertConditionDescriptorContainer"}

\* inspect.getmro(obj.__class__) walked in reverse: the declarations of the
\* base classes come first
RECURSIVE sorted_child_declarations(_)
sorted_child_declarations(cls) ==
    IF cls = "ContainerBase" THEN <<>>
    ELSE sorted_child_declarations(Base(cls)) \o _children(cls)

\* mutant: only the classes derived directly from the abstract metric
\* descriptor refuse children
isMetricDescriptor_DirectBaseOnly(cls) == Base(cls) = "AbstractMetricDescriptorContainer"

\* whether cls overrides addChild and rmChild as the metric descriptors do
RECURSIVE isMetricDescriptor(_)
isMetricDescriptor(cls) ==
    IF cls = "ContainerBase" THEN FALSE
    ELSE cls = "AbstractMetricDescriptorContainer" \/ isMetricDescriptor(Base(cls))

NoTag == "ValueError"

\* variant: a node type no declaration lists is filed under the first tag
_tag_name_for_child_descriptor_FirstTag(cls, node_type) ==
    sorted_child_declarations(cls)[1].child_qname

\* the child_qname of the first declaration that lists node_type
_tag_name_for_child_descriptor(cls, node_type) ==
    LET decls == sorted_child_declarations(cls)
        hits == {k \in 1..Len(decls) : decls[k].conts /\ node_type \in decls[k].node_types}
    IN IF hits = {} THEN NoTag
       ELSE decls[CHOOSE k \in hits : \A l \in hits : k <= l].child_qname

\* the entry of the defaultdict for node_type, 0 if the key is missing
KeyIndex(by_type, node_type) ==
    LET hits == {k \in 1..Len(by_type) : by_type[k].node_type = node_type}
    IN IF hits = {} THEN 0 ELSE CHOOSE k \in hits : TRUE

\* _child_containers_by_type[node_type]: a missing key is created
WithKey(by_type, node_type) ==
    IF KeyIndex(by_type, node_type) = 0
    THEN Append(by_type, [node_type |-> node_type, list |-> <<>>])
    ELSE by_type

ChildNode(tag, child) == [tag |-> tag, kind |-> "descriptor", id |-> child.handle,
                          NODETYPE |-> child.NODETYPE]
PropertyNode(tag, k) == [tag |-> tag, kind |-> "property", id |-> k, NODETYPE |-> "none"]

\* the child nodes one entry of _child_containers_by_type appends
NodesOfList(tag, list) == [k \in 1..Len(list) |-> ChildNode(tag, list[k])]

\* the loop over _child_containers_by_type.items() in mk_descriptor_node
RECURSIVE ConnectChildren(_, _, _)
ConnectChildren(cls, by_type, nodes) ==
    IF by_type = <<>> THEN [raised |-> FALSE, children |-> nodes]
    ELSE LET child_tag == _tag_name_for_child_descriptor(cls, Head(by_type).node_type) IN
         IF child_tag = NoTag THEN [raised |-> TRUE, children |-> <<>>]
         ELSE ConnectChildren(cls, Tail(by_type),
                              nodes \o NodesOfList(child_tag, Head(by_type).list))

\* the two loops at the end of _sort_child_nodes: node.append moves a node
\* that is in the tree already
RECURSIVE AppendInOrder(_, _, _)
AppendInOrder(qnames, allChildNodes, nodes) ==
    IF qnames = <<>> THEN nodes
    ELSE AppendInOrder(Tail(qnames), allChildNodes,
                       SelectSeq(nodes, LAMBDA n : n.tag # Head(qnames))
                          \o SelectSeq(allChildNodes, LAMBDA n : n.tag = Head(qnames)))

\* variant: the nodes are left in the order they were appended in
_sort_child_nodes_Unsorted(cls, nodes) == [raised |-> FALSE, children |-> nodes]

_sort_child_nodes(cls, nodes) ==
    LET child_decls == sorted_child_declarations(cls)
        qnames == [k \in 1..Len(child_decls) |-> child_decls[k].child_qname]
        not_in_order == SelectSeq(nodes, LAMBDA n : \A k \in 1..Len(qnames) : n.tag # qnames[k])
    IN IF Len(not_in_order) > 0 THEN [raised |-> TRUE, children |-> <<>>]
       ELSE [raised |-> FALSE, children |-> AppendInOrder(qnames, nodes, <<>>)]

mk_descriptor_node(cls, props, by_type, connect_child_descriptors) ==
    LET own == [k \in 1..Len(props) |-> PropertyNode(props[k], k)]
        all == IF connect_child_descriptors THEN ConnectChildren(cls, by_type, own)
               ELSE [raised |-> FALSE, children |-> own]
    IN IF all.raised THEN all ELSE _sort_child_nodes(cls, all.children)

\* AbstractDescriptorContainer.addChild, AbstractMetricDescriptorContainer.addChild
addChild(node_type) ==
    LET child == [handle |-> next_handle, NODETYPE |-> node_type]
        k == KeyIndex(WithKey(child_containers_by_type, node_type), node_type)
        raised == isMetricDescriptor(descriptor_class)
    IN
    /\ child_ops_left > 0
    /\ child_ops_left' = child_ops_left - 1
    /\ before_call' = child_containers_by_type
    /\ last_call' = [op |-> "addChild", handle |-> child.handle, NODETYPE |-> node_type,
                     raised |-> raised]
    /\ next_handle' = next_handle + 1
    /\ child_containers_by_type' =
          IF raised THEN child_containers_by_type
          ELSE [WithKey(child_containers_by_type, node_type) EXCEPT ![k].list = Append(@, child)]
    /\ node' = NotBuilt
    /\ UNCHANGED <<descriptor_class, property_nodes, context_vars, metric_vars, effects_left,
                   engine_vars, registered_operations, descriptions, states, registry_calls, caller_vars,
                   history_vars, budget_vars>>

\* AbstractDescriptorContainer.rmChild, AbstractMetricDescriptorContainer.rmChild
rmChild(child) ==
    LET k == KeyIndex(WithKey(child_containers_by_type, child.NODETYPE), child.NODETYPE)
        raised == isMetricDescriptor(descriptor_class)
    IN
    /\ child_ops_left > 0
    /\ child_ops_left' = child_ops_left - 1
    /\ before_call' = child_containers_by_type
    /\ last_call' = [op |-> "rmChild", handle |-> child.handle, NODETYPE |-> child.NODETYPE,
                     raised |-> raised]
    /\ child_containers_by_type' =
          IF raised THEN child_containers_by_type
          ELSE [WithKey(child_containers_by_type, child.NODETYPE) EXCEPT
                   ![k].list = SelectSeq(@, LAMBDA c : c.handle # child.handle)]
    /\ node' = NotBuilt
    /\ UNCHANGED <<descriptor_class, property_nodes, next_handle, context_vars, metric_vars,
                   effects_left, engine_vars, registered_operations, descriptions, states, registry_calls,
                   caller_vars, history_vars, budget_vars>>

\* AbstractDescriptorContainer.mkDescriptorNode
mkDescriptorNode(connect_child_descriptors) ==
    LET r == mk_descriptor_node(descriptor_class, property_nodes, child_containers_by_type,
                                connect_child_descriptors) IN
    /\ ~node.built
    /\ node' = [built |-> TRUE, connect_child_descriptors |-> connect_child_descriptors,
                raised |-> r.raised, children |-> r.children]
    /\ UNCHANGED <<descriptor_class, property_nodes, child_containers_by_type, before_call,
                   last_call, next_handle, child_ops_left, context_vars, metric_vars,
                   effects_left, engine_vars, registered_operations, descriptions, states, registry_calls,
                   caller_vars, history_vars, budget_vars>>

\* the child containers the descriptor holds, and those a caller may pass
HeldChildren ==
    UNION {{child_containers_by_type[k].list[l] : l \in 1..Len(child_containers_by_type[k].list)} :
              k \in 1..Len(child_containers_by_type)}

ChildNodeTypes ==
    {"ScoDescriptor", "ChannelDescriptor", "NumericMetricDescriptor", "StringMetricDescriptor"}

Stranger == [handle |-> 0, NODETYPE |-> "ChannelDescriptor"]

\* what _updateNode may have put into the node
PropertyNodeChoices ==
    {<<>>, <<"Type">>, <<"ProductionSpecification", "Type", "Extension">>,
     <<"Type", "TimeProtocol", "TimeProtocol">>}

InitDescr ==
    /\ EngineInit(0, 0)
    /\ IdleMetric
    /\ IdleContext
    /\ effects_left = 0
    /\ descriptor_class \in DescriptorClasses
    /\ property_nodes \in PropertyNodeChoices
    /\ child_containers_by_type = <<>>
    /\ before_call = <<>>
    /\ last_call = NoCall
    /\ next_handle = 1
    /\ node = NotBuilt
    /\ child_ops_left = MaxChildOps

NextDescr ==
    \/ \E node_type \in ChildNodeTypes : addChild(node_type)
    \/ \E child \in HeldChildren \cup {Stranger} : rmChild(child)
    \/ \E connect_child_descriptors \in BOOLEAN : mkDescriptorNode(connect_child_descriptors)

SpecDescr == InitDescr /\ [][NextDescr]_vars

\* --------------------------------------------------------- specifications

Next ==
    \/ start_worker
    \/ \E t \in Threads : stop_worker_put(t)
    \/ \E t \in Threads : stop_worker_join(t)
    \/ \E t \in Threads, h \in Handles : enqueue_operation(t, h)
    \/ \E t \in Threads : enqueue_operation_put(t)
    \/ \E t \in Threads : enqueue_operation_return(t)
    \/ \E w \in Workers : worker_step(w)

Spec == Init /\ [][Next]_vars

\* one life of the engine: the worker is started once (SdcDevice.start_all)
\* and may be stopped (SdcDevice.stop_all), it is not started again
NextRun ==
    \/ created = 0 /\ start_worker
    \/ \E t \in Threads : stop_worker_put(t)
    \/ \E t \in Threads : stop_worker_join(t)
    \/ \E t \in Threads, h \in Handles : enqueue_operation(t, h)
    \/ \E t \in Threads : enqueue_operation_put(t)
    \/ \E t \in Threads : enqueue_operation_return(t)
    \/ \E w \in Workers : worker_step(w)

SpecRun == Init /\ [][NextRun]_vars

\* one life of the engine whose direct callers may hand over any object as
\* the operation
NextRaw ==
    \/ created = 0 /\ start_worker
    \/ \E t \in Threads : stop_worker_put(t)
    \/ \E t \in Threads : stop_worker_join(t)
    \/ \E t \in Threads, h \in Handles \cup {HandlelessOperation} : enqueue_operation(t, h)
    \/ \E t \in Threads : enqueue_operation_put(t)
    \/ \E t \in Threads : enqueue_operation_return(t)
    \/ \E w \in Workers : worker_step(w)

SpecRaw == Init /\ [][NextRaw]_vars

\* the request handlers in front of the engine, with a changing registry
InitSvc == InitWith(MaxCallsSvc, 0)

NextSvc ==
    \/ \E h \in Handles : register_operation(h)
    \/ \E h \in Handles : unregister_operation_by_handle(h)
    \/ start_worker
    \/ \E t \in Threads, tag \in RequestTags, h \in Handles : handle_operation_request(t, tag, h)
    \/ \E t \in Threads, tag \in RequestTags, h \in Handles : on_set_context_state(t, tag, h)
    \/ \E t \in Threads : enqueue_operation_put(t)
    \/ \E t \in Threads : enqueue_operation_return(t)
    \/ \E w \in Workers :
         \/ worker_get(w)
         \/ worker_notify(w)
         \/ worker_execute(w)
         \/ worker_effect_returns(w)

SpecSvc == InitSvc /\ [][NextSvc]_vars

\* the registry as the device's callers see it, with the request handler of
\* the set service in front of the engine
NextReg ==
    \/ \E h \in Handles : register_operation(h)
    \/ \E h \in Handles : unregister_operation_by_handle(h)
    \/ \E h \in Handles : SdcDevice_unregister_operation_by_handle(h)
    \/ start_worker
    \/ \E t \in Threads, tag \in RequestTags, h \in Handles : handle_operation_request(t, tag, h)
    \/ \E t \in Threads : enqueue_operation_put(t)
    \/ \E t \in Threads : enqueue_operation_return(t)

SpecReg == InitSvc /\ [][NextReg]_vars

\* the engine alone, filled until admission fails
\* MaxCallsQ further calls meet a started worker that has not been scheduled
\* since QueueFill invocations of op_val were accepted and returned
FilledQueue == [k \in 1..QueueFill |-> OpItem(FirstTransactionId + k - 1, "op_val")]

InitQ ==
    /\ registered_operations = {}
    /\ descriptions = SetToBag({OperationTarget(h) : h \in Handles})
    /\ states = EmptyBag
    /\ registry_calls = [h \in Handles |-> "none"]
    /\ worker = 1
    /\ created = 1
    /\ operations_queue = [w \in Workers |-> IF w = 1 THEN FilledQueue ELSE <<>>]
    /\ transaction_id = [w \in Workers |-> IF w = 1 THEN FirstTransactionId + QueueFill
                                                   ELSE FirstTransactionId]
    /\ wpc = [w \in Workers |-> IF w = 1 THEN "get" ELSE "none"]
    /\ from_queue = [w \in Workers |-> NoItem]
    /\ wex = [w \in Workers |-> NoError]
    /\ notifications = [w \in Workers |-> <<>>]
    /\ cpc = [t \in Threads |-> "idle"]
    /\ cref = [t \in Threads |-> NoWorker]
    /\ citem = [t \in Threads |-> NoItem]
    /\ cclass = [t \in Threads |-> "none"]
    /\ reply = NoReply
    /\ accepted = {Inv(1, FilledQueue[k]) : k \in 1..QueueFill}
    /\ returned = {Inv(1, FilledQueue[k]) : k \in 1..QueueFill}
    /\ full_rejected = {}
    /\ executing = {}
    /\ effect_raised = {}
    /\ sink_raised = {}
    /\ handled = {}
    /\ stop_requested = {}
    /\ before_stop = {}
    /\ calls_left = MaxCallsQ
    /\ faults_left = 0
    /\ IdleStore

NextQ ==
    \/ \E t \in Threads : enqueue_operation(t, "op_val")
    \/ \E t \in Threads : enqueue_operation_put(t)
    \/ \E t \in Threads : enqueue_operation_return(t)
    \/ \E w \in Workers :
         \/ worker_get(w)
         \/ worker_notify(w)
         \/ worker_execute(w)
         \/ worker_effect_returns(w)

SpecQ == InitQ /\ [][NextQ]_vars

\* the filled engine with callers that stop the worker; the worker thread and
\* the stopping callers are scheduled fairly, but an effect need not return
NextStop ==
    \/ \E t \in Threads : stop_worker(t)
    \/ \E t \in Threads : stop_worker_put(t)
    \/ \E t \in Threads : stop_worker_join(t)
    \/ NextQ

SpecStop ==
    /\ InitQ
    /\ [][NextStop]_vars
    /\ \A t \in Threads : WF_vars(stop_worker_put(t)) /\ WF_vars(stop_worker_join(t))
    /\ \A w \in Workers :
          WF_vars(worker_get(w)) /\ WF_vars(worker_notify(w)) /\ WF_vars(worker_execute(w))

\* the engine while no stop is requested, with a worker thread that is
\* scheduled whenever it can step
NextFair ==
    \/ start_worker
    \/ \E t \in Threads : enqueue_operation(t, "op_val")
    \/ \E t \in Threads : enqueue_operation_put(t)
    \/ \E t \in Threads : enqueue_operation_return(t)
    \/ \E w \in Workers : worker_step(w)

SpecFair == Init /\ [][NextFair]_vars /\ \A w \in Workers : WF_vars(worker_step(w))

\* ----------------------------------------------------------------- claims

\* notifications worker w sent for transaction id tid, in order
NotesOf(w, tid) == SelectSeq(notifications[w], LAMBDA n : n.tid = tid)
StatesOf(i) == [k \in 1..Len(NotesOf(i.w, i.tid)) |-> NotesOf(i.w, i.tid)[k].state]
HasTerminal(i) == \E k \in 1..Len(StatesOf(i)) : StatesOf(i)[k] \in TerminalStates
InvKeys == [w : Workers, tid : FirstTransactionId..(FirstTransactionId + MaxCalls), op : Handles]

C2_OneEffectAtATime ==
    \A i, j \in executing : i = j

C2_Witness ==
    \E i \in executing :
       /\ operations_queue[i.w] # <<>>
       /\ \E t \in Threads : cpc[t] = "put" /\ cref[t] = i.w

\* C3: during one life of the engine, an id that enqueue_operation takes
\* differs from every id taken by another call, and a call that starts after
\* a call has returned takes a larger id than that call got.
C3_IdsDistinctIncreasing ==
    [][\A t \in Threads :
         /\ (cpc[t] = "idle" /\ cpc'[t] = "put")
               => \A a \in accepted : a.tid < citem'[t].tid
         /\ (cpc[t] = "put" /\ cpc'[t] = "return")
               => \A a \in accepted : a.tid # citem[t].tid]_vars

C3_Witness ==
    \E w \in Workers :
       /\ Len(operations_queue[w]) = 2
       /\ operations_queue[w][1].tid > operations_queue[w][2].tid
       /\ \A k \in 1..2 : Inv(w, operations_queue[w][k]) \in accepted

\* C9: during one life of the engine, the notifications of one transaction are
\* contiguous: between two notifications of a transaction (its WAIT and its
\* terminal one included) there is none of another transaction.
C9_NoInterleaving ==
    \A w \in Workers : \A k, l, m \in 1..Len(notifications[w]) :
       (k < l /\ l < m /\ notifications[w][k].tid = notifications[w][m].tid)
          => notifications[w][l].tid = notifications[w][k].tid

C9_Witness ==
    \E w \in Workers :
       /\ Len(notifications[w]) = 6
       /\ notifications[w][1].tid # notifications[w][6].tid

\* C10: no transaction id is returned for two different accepted invocations,
\* across start_worker / stop_worker.
C10_NeverReused ==
    \A i, j \in accepted : i # j => i.tid # j.tid

\* C4 (safety part): an invocation whose effect raised is never reported
\* FINISHED; once the worker has finished with it (and the sink took every
\* call) its notifications are WAIT, START, FAILED, the last with error Oth and
\* the repr of the exception; and the worker thread is still in its loop, or
\* has ended on a stop sentinel.
C4_FailureReported ==
    \A i \in effect_raised :
       /\ \A k \in 1..Len(StatesOf(i)) : StatesOf(i)[k] # FINISHED
       /\ (i \in handled /\ i \notin sink_raised) =>
             /\ StatesOf(i) = <<WAIT, START, FAILED>>
             /\ NotesOf(i.w, i.tid)[3].error = ERROR_OTHER
             /\ NotesOf(i.w, i.tid)[3].msg = Repr(EffectError)
       /\ i \in handled =>
             \/ wpc[i.w] \in {"get", "wait", "start", "exec", "running", "fin", "fail", "outer"}
             \/ wpc[i.w] = "done" /\ i.w \in stop_requested

\* what may keep an accepted invocation from its terminal notification: a
\* sink call that raised for it, or a stop request to its worker
Excused(i) == i \in sink_raised \/ i.w \in stop_requested

C6_TagMismatchRejected ==
    /\ reply.cls = "mismatch" => (reply.state = FAILED /\ reply.error = INVALID_VALUE)
    /\ \A t \in Threads : cclass[t] # "mismatch"

\* C7: a queue never holds more than QueueSize items, and an invocation whose
\* put found the queue full is not accepted, not queued, never executed and
\* never notified.
C7_FullQueueRejects ==
    /\ \A w \in Workers : Len(operations_queue[w]) <= QueueSize
    /\ \A i \in full_rejected :
          /\ i \notin accepted
          /\ i \notin executing
          /\ i \notin handled
          /\ NotesOf(i.w, i.tid) = <<>>
          /\ \A k \in 1..Len(operations_queue[i.w]) : operations_queue[i.w][k].tid # i.tid
          /\ from_queue[i.w].tid # i.tid

C7_Witness ==
    \E i \in full_rejected :
       /\ operations_queue[i.w] = <<>>
       /\ \A a \in accepted : HasTerminal(a)
       /\ Cardinality(accepted) >= QueueSize

C11_IdHeldBeforeWait ==
    /\ \A w \in Workers : \A k \in 1..Len(operations_queue[w]) :
          operations_queue[w][k] # StopItem
             => operations_queue[w][k].tid < transaction_id[w]
    /\ \A w \in Workers : \A k \in 1..Len(notifications[w]) :
          \E i \in returned : i.w = w /\ i.tid = notifications[w][k].tid

\* C12: an invocation queued when stop was requested is one the worker is done
\* with, terminal notification sent (unless a sink call raised for it), by the
\* time the worker thread has ended; the thread ends having taken the
\* sentinel and then does nothing more; an invocation queued behind the
\* sentinel is never taken, executed or notified by that worker.
QueuedBehindSentinel(i) ==
    /\ i \in accepted
    /\ i.w \in stop_requested
    /\ i \notin before_stop

ExecutionVersion == IF outcome = FINISHED THEN mdib_version - 1 ELSE mdib_version
ExecutionTime == clock - 1

\* proposed states of the last request that took the new-state branch
NewProposals == {k \in 1..Len(request) : ~IsUpdate(prev_states, request[k])}
\* proposed states of the last request that address a stored state
UpdateProposals ==
    {k \in 1..Len(request) :
        IsUpdate(prev_states, request[k]) /\ StatesWithHandle(prev_states, request[k].Handle) # {}}

\* the states the last effect added for descriptor dh
AddedStates(dh) ==
    {s \in StatesOfDescriptor(context_states, dh) : StatesWithHandle(prev_states, s.Handle) = {}}

\* C13: a proposed state whose Handle is not in the store makes the effect
\* add an ASSOCIATED state with the generated handle, and the invocation ends
\* FINISHED.
C13_AbsentHandleIsNew ==
    \A k \in 1..Len(request) :
       StatesWithHandle(prev_states, request[k].Handle) = {} =>
          /\ outcome = FINISHED
          /\ \E s \in AddedStates(request[k].descriptorHandle) :
                /\ s.Handle = GeneratedHandle(request[k].descriptorHandle, ExecutionVersion)
                /\ s.ContextAssociation = ASSOCIATED

\* C14: for a proposed state whose Handle equals its descriptorHandle the
\* effect adds exactly one state of that descriptor, with the generated
\* handle, BindingMdibVersion the mdib version of the execution, ASSOCIATED.
C14_DescriptorHandleAddsOne ==
    \A k \in 1..Len(request) :
       request[k].Handle = request[k].descriptorHandle =>
          /\ Cardinality(AddedStates(request[k].descriptorHandle)) = 1
          /\ \A s \in AddedStates(request[k].descriptorHandle) :
                /\ s.Handle = GeneratedHandle(request[k].descriptorHandle, ExecutionVersion)
                /\ s.BindingMdibVersion = ExecutionVersion
                /\ s.ContextAssociation = ASSOCIATED

\* C15: when the effect has created a state for a descriptor, every state of
\* that descriptor that was stored before is DISASSOCIATED afterwards; its
\* UnbindingMdibVersion and BindingEndTime are the execution's where
\* UnbindingMdibVersion was unset and the old ones otherwise; a state that was
\* DISASSOCIATED with unbinding set is the same as before; and no effect
\* changes an UnbindingMdibVersion or BindingEndTime once unbinding is set.
C15_SiblingsDisassociatedOnce ==
    /\ [](\A k \in NewProposals : outcome = FINISHED =>
            \A s \in StatesOfDescriptor(prev_states, request[k].descriptorHandle) :
               /\ Cardinality(StatesWithHandle(context_states, s.Handle)) = 1
               /\ \A n \in StatesWithHandle(context_states, s.Handle) :
                     /\ n.ContextAssociation = DISASSOCIATED
                     /\ s.UnbindingMdibVersion = Unset =>
                           /\ n.UnbindingMdibVersion = ExecutionVersion
                           /\ n.BindingEndTime = ExecutionTime
                     /\ s.UnbindingMdibVersion # Unset =>
                           /\ n.UnbindingMdibVersion = s.UnbindingMdibVersion
                           /\ n.BindingEndTime = s.BindingEndTime
                     /\ (/\ s.ContextAssociation = DISASSOCIATED
                         /\ s.UnbindingMdibVersion # Unset
                         /\ \A j \in UpdateProposals : request[j].Handle # s.Handle)
                           => n = s)
    /\ [][\A s \in context_states : s.UnbindingMdibVersion # Unset =>
            \E n \in context_states' :
               /\ n.Handle = s.Handle
               /\ n.UnbindingMdibVersion = s.UnbindingMdibVersion
               /\ n.BindingEndTime = s.BindingEndTime]_vars

C15_Witness ==
    /\ outcome = FINISHED
    /\ \E k \in NewProposals :
          \E s, t \in StatesOfDescriptor(prev_states, request[k].descriptorHandle) :
             /\ s.UnbindingMdibVersion # Unset /\ s.ContextAssociation # DISASSOCIATED
             /\ t.UnbindingMdibVersion # Unset /\ t.ContextAssociation = DISASSOCIATED
             /\ AddedStates(request[k].descriptorHandle) # {}

\* the fields an update leaves alone, and the states it leaves alone
KeepsBinding(s, n) ==
    /\ n.ContextAssociation = s.ContextAssociation
    /\ n.BindingMdibVersion = s.BindingMdibVersion
    /\ n.UnbindingMdibVersion = s.UnbindingMdibVersion
    /\ n.BindingStartTime = s.BindingStartTime
    /\ n.BindingEndTime = s.BindingEndTime

OnlyUpdatesChange ==
    (request # <<>> /\ NewProposals = {}) =>
       /\ \A s \in prev_states :
             (\A k \in UpdateProposals : request[k].Handle # s.Handle) => s \in context_states
       /\ \A n \in context_states : StatesWithHandle(prev_states, n.Handle) # {}

\* C16 as stated: an update of a stored state leaves its ContextAssociation,
\* BindingMdibVersion, UnbindingMdibVersion, BindingStartTime, BindingEndTime
\* and StateVersion as they were, whatever the request carries, and changes no
\* other state.
C16_UpdateKeepsEngineFields ==
    /\ \A k \in UpdateProposals :
          \A s \in StatesWithHandle(prev_states, request[k].Handle) :
             \A n \in StatesWithHandle(context_states, s.Handle) :
                KeepsBinding(s, n) /\ n.StateVersion = s.StateVersion
    /\ OnlyUpdatesChange

\* the last proposed state of the request that names handle h
LastFor(h) ==
    request[CHOOSE k \in 1..Len(request) :
               /\ request[k].Handle = h
               /\ \A j \in 1..Len(request) : request[j].Handle = h => j <= k]

\* the request committed a new state for the descriptor of s
SiblingCreated(s) ==
    outcome = FINISHED /\ \E j \in NewProposals : request[j].descriptorHandle = s.descriptorHandle

\* C16 amended: the update leaves the association and binding fields as they
\* were, unless the same request also creates a state for the descriptor
\* (which disassociates the updated state), and changes no other state;
\* StateVersion is not taken from the request either, it is the stored value
\* incremented by the commit of the update.
C16_UpdateKeepsBinding ==
    /\ \A k \in UpdateProposals :
          \A s \in StatesWithHandle(prev_states, request[k].Handle) :
             /\ Cardinality(StatesWithHandle(context_states, s.Handle)) = 1
             /\ \A n \in StatesWithHandle(context_states, s.Handle) :
                   /\ ~SiblingCreated(s) => KeepsBinding(s, n)
                   /\ n.BindingMdibVersion = s.BindingMdibVersion
                   /\ n.BindingStartTime = s.BindingStartTime
                   /\ n.ContextAssociation \in {s.ContextAssociation, DISASSOCIATED}
                   /\ n.StateVersion = IF outcome = FINISHED THEN s.StateVersion + 1
                                                             ELSE s.StateVersion
                   /\ outcome = FINISHED => n.payload = LastFor(s.Handle).payload
    /\ OnlyUpdatesChange

C16_Witness ==
    /\ outcome = FINISHED
    /\ Cardinality(prev_states) > 1
    /\ \E k \in UpdateProposals :
          \E s \in StatesWithHandle(prev_states, request[k].Handle) :
             /\ request[k].ContextAssociation # s.ContextAssociation
             /\ request[k].BindingMdibVersion # s.BindingMdibVersion
             /\ request[k].StateVersion = ClientNumber
             /\ request[k].payload # s.payload

\* ---------------------------------------------- claims on metric setters

\* the validity of the metric value of a metric state
ValidityOf(state) == state.metricValue[1].MetricQuality.Validity

\* C17: after a numeric or string setter the target's metric value exists and
\* carries the requested value; its validity is VALID if the descriptor's
\* MetricCategory is SETTING or PRESETTING, and what it was before otherwise.
C17_SetterAssignsAndValidates ==
    current_value # NoValue =>
       /\ metric_state.metricValue # NoMetricValue
       /\ metric_state.metricValue[1].Value = current_value
       /\ metric_category \in {SETTING, PRESETTING} => ValidityOf(metric_state) = VALID
       /\ (metric_category \notin {SETTING, PRESETTING} /\ prev_metric.metricValue # NoMetricValue)
             => ValidityOf(metric_state) = ValidityOf(prev_metric)

\* ----------------------------------------- claims on descriptor containers

DeclaredTags(cls) ==
    {sorted_child_declarations(cls)[k].child_qname : k \in 1..Len(sorted_child_declarations(cls))}

DeclaredNodeTypes(cls) ==
    UNION {sorted_child_declarations(cls)[k].node_types :
              k \in 1..Len(sorted_child_declarations(cls))}

\* the place of a tag in the declarations, those of the base classes first
TagIndex(cls, tag) ==
    CHOOSE k \in 1..Len(sorted_child_declarations(cls)) :
       /\ sorted_child_declarations(cls)[k].child_qname = tag
       /\ \A l \in 1..(k - 1) : sorted_child_declarations(cls)[l].child_qname # tag

\* a was put into the descriptor before b
InsertedBefore(a, b) ==
    \/ a.kind = "property" /\ b.kind = "descriptor"
    \/ a.kind = b.kind /\ a.id < b.id

\* the nodes the descriptor's sub elements and child containers stand for
ExpectedNodes ==
    {PropertyNode(property_nodes[k], k) : k \in 1..Len(property_nodes)}
       \cup {ChildNode(_tag_name_for_child_descriptor(descriptor_class, c.NODETYPE), c) :
                c \in HeldChildren}

\* a tree with the child descriptors was produced
TreeBuilt == node.built /\ node.connect_child_descriptors /\ ~node.raised

InDeclaredOrder(ch) ==
    /\ \A i \in 1..Len(ch) : ch[i].tag \in DeclaredTags(descriptor_class)
    /\ \A i, j \in 1..Len(ch) :
          i < j => TagIndex(descriptor_class, ch[i].tag) <= TagIndex(descriptor_class, ch[j].tag)

NoneLostOrDuplicated(ch) ==
    /\ {ch[i] : i \in 1..Len(ch)} = ExpectedNodes
    /\ Len(ch) = Cardinality(ExpectedNodes)

\* C18 as stated: the child nodes of a materialized descriptor are in the
\* declared order of their tags (base-class declarations first), nodes of the
\* same tag in the order they were inserted, none lost or duplicated.
C18_SameTagInInsertionOrder ==
    TreeBuilt =>
       /\ InDeclaredOrder(node.children)
       /\ \A i, j \in 1..Len(node.children) :
             (i < j /\ node.children[i].tag = node.children[j].tag)
                => InsertedBefore(node.children[i], node.children[j])
       /\ NoneLostOrDuplicated(node.children)

\* C18 amended: the child nodes of a materialized descriptor are in the
\* declared order of their tags (base-class declarations first), nodes of the
\* same tag and the same node type in the order they were inserted, none lost
\* or duplicated.
C18_SameTypeInInsertionOrder ==
    TreeBuilt =>
       /\ InDeclaredOrder(node.children)
       /\ \A i, j \in 1..Len(node.children) :
             (/\ i < j
              /\ node.children[i].tag = node.children[j].tag
              /\ node.children[i].NODETYPE = node.children[j].NODETYPE)
                => InsertedBefore(node.children[i], node.children[j])
       /\ NoneLostOrDuplicated(node.children)

C18_Witness ==
    /\ TreeBuilt
    /\ Len(property_nodes) > 1
    /\ \E a, b \in HeldChildren :
          /\ a.handle < b.handle
          /\ TagIndex(descriptor_class, _tag_name_for_child_descriptor(descriptor_class, a.NODETYPE))
                > TagIndex(descriptor_class, _tag_name_for_child_descriptor(descriptor_class, b.NODETYPE))
    /\ \E i, j \in 1..Len(node.children) :
          /\ i < j
          /\ node.children[i].kind = "property" /\ node.children[j].kind = "property"
          /\ node.children[i].id > node.children[j].id

\* C19: materializing a descriptor one of whose sub elements has an undeclared
\* tag, or materializing it with its child descriptors when one of them has an
\* undeclared node type, raises; a tree that was produced holds declared tags
\* and node types only.
C19_UndeclaredChildRaises ==
    node.built =>
       /\ (\E k \in 1..Len(property_nodes) : property_nodes[k] \notin DeclaredTags(descriptor_class))
             => node.raised
       /\ (/\ node.connect_child_descriptors
           /\ \E c \in HeldChildren : c.NODETYPE \notin DeclaredNodeTypes(descriptor_class))
             => node.raised
       /\ \A i \in 1..Len(node.children) :
             /\ node.children[i].tag \in DeclaredTags(descriptor_class)
             /\ node.children[i].kind = "descriptor"
                   => node.children[i].NODETYPE \in DeclaredNodeTypes(descriptor_class)

C19_Witness ==
    /\ node.built /\ node.connect_child_descriptors /\ node.raised
    /\ \A k \in 1..Len(property_nodes) : property_nodes[k] \in DeclaredTags(descriptor_class)
    /\ \E c, d \in HeldChildren :
          /\ c.NODETYPE \notin DeclaredNodeTypes(descriptor_class)
          /\ d.NODETYPE \in DeclaredNodeTypes(descriptor_class)

\* C20: addChild with a child whose node type is in none of the parent's
\* declared groups raises at the call and leaves the parent's children as
\* they were.
C20_UnsupportedChildRejected ==
    (last_call.op = "addChild" /\ last_call.NODETYPE \notin DeclaredNodeTypes(descriptor_class))
       => (last_call.raised /\ child_containers_by_type = before_call)

\* the five metric descriptor variants
MetricDescriptorClasses ==
    {"NumericMetricDescriptorContainer", "StringMetricDescriptorContainer",
     "EnumStringMetricDescriptorContainer", "RealTimeSampleArrayMetricDescriptorContainer",
     "DistributionSampleArrayMetricDescriptorContainer"}

\* C21: on a metric descriptor of any of the five variants every addChild and
\* every rmChild raises, and the metric holds no child container.
C21_MetricsRefuseChildren ==
    descriptor_class \in MetricDescriptorClasses =>
       /\ child_containers_by_type = <<>>
       /\ last_call.op # "none" => last_call.raised

C21_Witness ==
    /\ descriptor_class = "EnumStringMetricDescriptorContainer"
    /\ last_call.op = "rmChild" /\ last_call.raised
    /\ next_handle > 1
    /\ child_containers_by_type = <<>>

\* ------------------------------------------------ registry claims

\* handles whose last registry call was a registration that returned
Registered == {h \in Handles : registry_calls[h] = "register"}

TargetHasState(h) ==
    \/ BagIn(OperationTarget(h), states)
    \/ \E s \in context_states : s.descriptorHandle = OperationTarget(h)

BoundOnce(h) ==
    /\ CopiesIn(h, descriptions) = 1
    /\ CopiesIn(h, states) = 1
    /\ get_operation_by_handle(registered_operations, h) = h

C23_UnregisteredIsGone ==
    /\ [](\A h \in Handles :
            registry_calls[h] \in {"unregister", "device_unregister"} =>
               get_operation_by_handle(registered_operations, h) = "None")
    /\ [][\A t \in Threads, tag \in RequestTags, h \in Handles :
             (/\ registry_calls[h] \in {"unregister", "device_unregister"}
              /\ handle_operation_request(t, tag, h))
             => (reply'.cls = "unknown" /\ reply'.state = FAILED /\ cpc'[t] = "idle")]_vars

\* ------------------------------------------------ engine claims, continued

\* C24: invocations are started in transaction-id order: when a worker's sink
\* receives WAIT for transaction a and later WAIT for transaction b, a < b.
C24_StartedInIdOrder ==
    \A w \in Workers : \A k, l \in 1..Len(notifications[w]) :
       (/\ k < l
        /\ notifications[w][k].state = WAIT
        /\ notifications[w][l].state = WAIT)
          => notifications[w][k].tid < notifications[w][l].tid

\* C25: an invocation whose effect returned normally is never reported FAILED,
\* and no transaction gets more than one terminal notification, whatever the
\* sink does.
C25_ReturnedNeverFailed ==
    \A i \in accepted :
       /\ i \notin effect_raised =>
             \A k \in 1..Len(StatesOf(i)) : StatesOf(i)[k] # FAILED
       /\ \A k, l \in 1..Len(StatesOf(i)) :
             (StatesOf(i)[k] \in TerminalStates /\ StatesOf(i)[l] \in TerminalStates)
                => k = l

\* C26: the worker loop ends only by dequeuing the sentinel; no failure of an
\* effect, of a sink call or of handling an item, an operation without a
\* handle included, ends the thread.
C26_EndsOnlyBySentinel ==
    [][\A w \in Workers :
         (wpc[w] \notin {"done", "dead"} /\ wpc'[w] \in {"done", "dead"})
            => (/\ wpc[w] = "get"
                /\ operations_queue[w] # <<>>
                /\ Head(operations_queue[w]) = StopItem)]_vars

\* worker threads that were started and have not ended
AliveWorkers == {w \in Workers : wpc[w] \notin {"none", "done", "dead"}}

\* C27: at most one worker thread is alive at any time: start_worker on a
\* registry that has a worker creates no thread, and once stop_worker has
\* returned, no effect of the stopped worker runs while a later worker lives.
C27_OneWorkerAlive ==
    /\ [](\A v, w \in AliveWorkers : v = w)
    /\ [](\A i \in executing : \A w \in AliveWorkers : w = i.w)
    /\ [][created' # created => worker = NoWorker]_vars

\* C28: stop_worker always returns, also when the queue is full and the
\* running effect never returns.
C28_StopReturns ==
    \A t \in Threads : (cpc[t] = "stop") ~> (cpc[t] = "idle")

\* ------------------------------------ claims on context states, continued

AssociatedStates(dh) ==
    {s \in StatesOfDescriptor(context_states, dh) : s.ContextAssociation = ASSOCIATED}

\* C29: after any sequence of committed SetContextState invocations, every
\* context descriptor has at most one ASSOCIATED state.
C29_OneAssociatedPerDescriptor ==
    \A dh \in ContextDescriptors : Cardinality(AssociatedStates(dh)) <= 1

\* a stored ASSOCIATED state was disassociated by a request that carried an
\* update for it and a new state for its descriptor
C29_Witness ==
    /\ outcome = FINISHED
    /\ \E s \in prev_states :
          /\ s.ContextAssociation = ASSOCIATED
          /\ \E k \in UpdateProposals : request[k].Handle = s.Handle
          /\ \E k \in NewProposals : request[k].descriptorHandle = s.descriptorHandle
          /\ Cardinality(AssociatedStates(s.descriptorHandle)) = 1
          /\ Cardinality(StatesOfDescriptor(context_states, s.descriptorHandle)) > 1

\* the states the last request added
AddedByRequest == {s \in context_states : StatesWithHandle(prev_states, s.Handle) = {}}

====
